---------------------------- MODULE Spec2Model ----------------------------
(***************************************************************************)
(* Model of src/app.py: process_file_contents (the record-extraction loop  *)
(* and the pandas pipeline that follows it), create_heatmap and the part   *)
(* of main that consumes their results.                                    *)
(*                                                                         *)
(* A text is a sequence of characters.  To keep texts short the words of   *)
(* the export format ("Date", "Like(s)", "Adds yours text", a date, a      *)
(* note) are single characters of the model's alphabet; the separators     *)
(* ":", " ", the carriage return and the line feed are characters of their *)
(* own, and so are the digits and the sign of a like count.                *)
(***************************************************************************)
EXTENDS Integers, Sequences, FiniteSets, TLC

VARIABLES
    file_contents,    \* argument of process_file_contents
    timezone,         \* argument of process_file_contents
    lines,            \* file_contents.split('\n'), the list the loop walks
    pos,              \* index of the next line of that list
    current_record,   \* the in-progress record (a dict: key -> value)
    records,          \* the list of finished records
    df,               \* the DataFrame, a sequence of rows
    pc,               \* the statement the program is at
    st_error,         \* the exception reported through st.error ("" if none)
    result,           \* what process_file_contents returned
    df_grouped,       \* create_heatmap: (day_of_week, hour) -> rounded mean
    heatmap_data,     \* create_heatmap: the pivoted matrix
    metrics           \* main: the two st.metric values

vars == <<file_contents, timezone, lines, pos, current_record, records, df, pc,
          st_error, result, df_grouped, heatmap_data, metrics>>

-----------------------------------------------------------------------------
(* Bounds of the model *)

\* longest text, in lines, drawn from the whole catalogue of lines
MaxQuirkLines == 2
\* longest text, in lines, drawn from the lines that carry the two fields
MaxFieldLines == 3
\* longest text, in lines, drawn from the lines of well-formed blocks
MaxBlockLines == 5
\* most rows of a table handed directly to create_heatmap
MaxRows == 9

-----------------------------------------------------------------------------
(* Characters, lines and texts *)

NL == "\n"
Marker == <<"Adds yours text", ":">>
Separator == <<":", " ">>
Whitespace == {" ", "\r"}
KeyDate == <<"Date">>
KeyLikes == <<"Like(s)">>

D1 == "2024-01-15T10:00:00Z"
D2 == "2024-01-16T03:00:00Z"

BlockLines ==
    { <<"Date", ":", " ", D1>>,
      <<"Date", ":", " ", D2>>,
      <<"Like(s)", ":", " ", "1", "0">>,
      <<"Adds yours text", ":", " ", "x">> }

FieldLines ==
    { <<"Date", ":", " ", D1>>,
      <<"Date", ":", " ", "notadate">>,
      <<"Like(s)", ":", " ", "1", "0">>,
      <<"Like(s)", ":", " ", "-", "5">>,
      <<"Like(s)", ":", " ", "abc">>,
      <<"Adds yours text", ":", " ", "x">> }

AllLines ==
    FieldLines \cup
    { <<"Adds yours text", ":">>,
      <<" ", "Adds yours text", ":", " ", "y", "\r">>,
      <<"Adds yours text", ":", "a", ":", " ", "b">>,
      <<"x", " ", "Adds yours text", ":", " ", "y">>,
      <<"Note", ":", " ", "a", ":", " ", "b">>,
      <<"Note", ":", " ", "c">>,
      <<"a", ":", "b">>,
      <<"junk">>,
      <<" ">>,
      <<>> }

Zones == {"UTC", "US/Pacific", "Mars/Phobos"}

RECURSIVE JoinLines(_)
JoinLines(ls) ==
    IF Len(ls) = 0 THEN <<>>
    ELSE IF Len(ls) = 1 THEN ls[1]
    ELSE ls[1] \o <<NL>> \o JoinLines(Tail(ls))

SeqsUpTo(S, n) == UNION { [1..k -> S] : k \in 0..n }

Texts ==
    { JoinLines(ls) : ls \in SeqsUpTo(AllLines, MaxQuirkLines) }
    \cup { JoinLines(ls) : ls \in SeqsUpTo(FieldLines, MaxFieldLines) }
    \cup { JoinLines(ls) : ls \in SeqsUpTo(BlockLines, MaxBlockLines) }

-----------------------------------------------------------------------------
(* str.split, str.strip, the two line rules *)

\* file_contents.split('\n')
RECURSIVE Split(_)
Split(s) ==
    IF \A k \in 1..Len(s) : s[k] # NL THEN <<s>>
    ELSE LET k == CHOOSE j \in 1..Len(s) :
                      s[j] = NL /\ \A m \in 1..(j-1) : s[m] # NL
         IN  <<SubSeq(s, 1, k-1)>> \o Split(SubSeq(s, k+1, Len(s)))

\* line.strip()
Strip(s) ==
    IF \A k \in 1..Len(s) : s[k] \in Whitespace THEN <<>>
    ELSE LET a == CHOOSE j \in 1..Len(s) :
                      s[j] \notin Whitespace
                      /\ \A m \in 1..(j-1) : s[m] \in Whitespace
             b == CHOOSE j \in 1..Len(s) :
                      s[j] \notin Whitespace
                      /\ \A m \in (j+1)..Len(s) : s[m] \in Whitespace
         IN  SubSeq(s, a, b)

OccursAt(pat, s, k) ==
    /\ k + Len(pat) - 1 <= Len(s)
    /\ \A m \in 1..Len(pat) : s[k + m - 1] = pat[m]

\* ': ' in line
HasSeparator(line) == \E k \in 1..Len(line) : OccursAt(Separator, line, k)

FirstSeparator(line) ==
    CHOOSE k \in 1..Len(line) :
        OccursAt(Separator, line, k)
        /\ \A m \in 1..(k-1) : ~OccursAt(Separator, line, m)

\* a split at the last ': ' of the line instead of the first
SplitKeyValueLast(line) ==
    LET k == CHOOSE j \in 1..Len(line) :
                 OccursAt(Separator, line, j)
                 /\ \A m \in (j+1)..Len(line) : ~OccursAt(Separator, line, m)
    IN  <<SubSeq(line, 1, k-1), SubSeq(line, k + Len(Separator), Len(line))>>

\* line.split(': ', 1)
SplitKeyValue(line) ==
    LET k == FirstSeparator(line)
    IN  <<SubSeq(line, 1, k-1), SubSeq(line, k + Len(Separator), Len(line))>>

\* the marker anywhere in the line instead of at its start
IsTerminatorAnywhere(line) ==
    \E k \in 1..Len(line) : OccursAt(Marker, line, k)

\* line.startswith('Adds yours text:')
IsTerminator(line) == OccursAt(Marker, line, 1)

\* a store that keeps the value a key already has
StoreKeepFirst(rec, key, value) ==
    [k \in (DOMAIN rec) \cup {key} |->
        IF k \in DOMAIN rec THEN rec[k] ELSE value]

\* current_record[key] = value
Store(rec, key, value) ==
    [k \in (DOMAIN rec) \cup {key} |-> IF k = key THEN value ELSE rec[k]]

EmptyRecord == [k \in {} |-> <<>>]

-----------------------------------------------------------------------------
(* process_file_contents: the extraction loop *)

InitCommon ==
    /\ pos = 1
    /\ current_record = EmptyRecord
    /\ records = <<>>
    /\ df = <<>>
    /\ st_error = ""
    /\ result = "pending"
    /\ df_grouped = EmptyRecord
    /\ heatmap_data = EmptyRecord
    /\ metrics = <<>>

Init ==
    /\ file_contents \in Texts
    /\ timezone \in Zones
    /\ lines = Split(file_contents)
    /\ pc = "loop"
    /\ InitCommon

\* the key/value rule as the else-branch of the terminator rule
AfterKeyValueElif(rec, line) ==
    IF HasSeparator(line) /\ ~IsTerminator(line)
    THEN Store(rec, SplitKeyValue(line)[1], SplitKeyValue(line)[2])
    ELSE rec

\* the record after the key/value rule of one stripped line
AfterKeyValue(rec, line) ==
    IF HasSeparator(line)
    THEN Store(rec, SplitKeyValue(line)[1], SplitKeyValue(line)[2])
    ELSE rec

\* one iteration of: for line in file_contents.split('\n')
ReadLine ==
    /\ pc = "loop"
    /\ pos <= Len(lines)
    /\ LET line == Strip(lines[pos])
           rec  == AfterKeyValue(current_record, line)
       IN  IF line = <<>>
           THEN UNCHANGED <<current_record, records>>
           ELSE IF IsTerminator(line)
                THEN /\ records' = Append(records, rec)
                     /\ current_record' = EmptyRecord
                ELSE /\ current_record' = rec
                     /\ UNCHANGED records
    /\ pos' = pos + 1
    /\ UNCHANGED <<file_contents, timezone, lines, df, pc, st_error, result,
                   df_grouped, heatmap_data, metrics>>

-----------------------------------------------------------------------------
(* process_file_contents: the pandas pipeline (lines 24-46) *)

\* a cell of a column built from the records: the string, or NaN where the
\* record has no such key
Cell(rec, key) ==
    IF key \in DOMAIN rec THEN [nan |-> FALSE, s |-> rec[key]]
    ELSE [nan |-> TRUE, s |-> <<>>]

\* the column labels when the frame is built with the two columns named
ColumnsFixed(recs) ==
    {KeyDate, KeyLikes} \cup UNION { DOMAIN recs[r] : r \in 1..Len(recs) }

\* the column labels of pd.DataFrame(records): the union of the keys
Columns(recs) == UNION { DOMAIN recs[r] : r \in 1..Len(recs) }

\* the frame built after appending the in-progress record left by the loop
BuildFrameFlushing ==
    /\ pc = "loop"
    /\ pos > Len(lines)
    /\ records' = IF current_record = EmptyRecord THEN records
                  ELSE Append(records, current_record)
    /\ IF {KeyDate, KeyLikes} \subseteq Columns(records')
       THEN /\ df' = [r \in 1..Len(records') |->
                        [date  |-> Cell(records'[r], KeyDate),
                         Likes |-> Cell(records'[r], KeyLikes)]]
            /\ pc' = "to_datetime"
            /\ UNCHANGED <<st_error, result>>
       ELSE /\ st_error' = "KeyError"
            /\ result' = "None"
            /\ pc' = "done"
            /\ UNCHANGED df
    /\ UNCHANGED <<file_contents, timezone, lines, pos, current_record,
                   df_grouped, heatmap_data, metrics>>

\* df = pd.DataFrame(records)[['Date', 'Like(s)']]; df.columns = [...]
\* except: st.error(...); return None
BuildFrame ==
    /\ pc = "loop"
    /\ pos > Len(lines)
    /\ IF {KeyDate, KeyLikes} \subseteq Columns(records)
       THEN /\ df' = [r \in 1..Len(records) |->
                        [date  |-> Cell(records[r], KeyDate),
                         Likes |-> Cell(records[r], KeyLikes)]]
            /\ pc' = "to_datetime"
            /\ UNCHANGED <<st_error, result>>
       ELSE /\ st_error' = "KeyError"
            /\ result' = "None"
            /\ pc' = "done"
            /\ UNCHANGED df
    /\ UNCHANGED <<file_contents, timezone, lines, pos, current_record, records,
                   df_grouped, heatmap_data, metrics>>

\* The instants the date strings of the catalogue denote, in hours since
\* Monday 2024-01-15T00:00:00Z; any other string is not a date.
DateTable == (D1 :> 10) @@ (D2 :> 27)

\* pd.to_datetime of one string
DateParses(s) == Len(s) = 1 /\ s[1] \in DOMAIN DateTable

\* The zones of the model that the timezone database knows, with their
\* offset from UTC in hours on the dates of the catalogue (January).
ZoneOffset == ("UTC" :> 0) @@ ("US/Pacific" :> (0 - 8))

KnownZone(tz) == tz \in DOMAIN ZoneOffset

\* the zone looked up before the dates are parsed
ToDatetimeZoneFirst ==
    /\ pc = "to_datetime"
    /\ IF ~KnownZone(timezone)
       THEN /\ st_error' = "UnknownTimeZoneError"
            /\ result' = "None"
            /\ pc' = "done"
            /\ UNCHANGED df
       ELSE IF \A r \in 1..Len(df) : df[r].date.nan \/ DateParses(df[r].date.s)
       THEN /\ df' = [r \in 1..Len(df) |->
                        [df[r] EXCEPT !.date =
                            IF df[r].date.nan
                            THEN [nat |-> TRUE, t |-> 0, tz |-> "UTC"]
                            ELSE [nat |-> FALSE,
                                  t   |-> DateTable[df[r].date.s[1]],
                                  tz  |-> "UTC"]]]
            /\ pc' = "tz_convert"
            /\ UNCHANGED <<st_error, result>>
       ELSE /\ st_error' = "DateParseError"
            /\ result' = "None"
            /\ pc' = "done"
            /\ UNCHANGED df
    /\ UNCHANGED <<file_contents, timezone, lines, pos, current_record, records,
                   df_grouped, heatmap_data, metrics>>

\* df['date'] = pd.to_datetime(df['date'], utc=True)
ToDatetime ==
    /\ pc = "to_datetime"
    /\ IF \A r \in 1..Len(df) : df[r].date.nan \/ DateParses(df[r].date.s)
       THEN /\ df' = [r \in 1..Len(df) |->
                        [df[r] EXCEPT !.date =
                            IF df[r].date.nan
                            THEN [nat |-> TRUE, t |-> 0, tz |-> "UTC"]
                            ELSE [nat |-> FALSE,
                                  t   |-> DateTable[df[r].date.s[1]],
                                  tz  |-> "UTC"]]]
            /\ pc' = "tz_convert"
            /\ UNCHANGED <<st_error, result>>
       ELSE /\ st_error' = "DateParseError"
            /\ result' = "None"
            /\ pc' = "done"
            /\ UNCHANGED df
    /\ UNCHANGED <<file_contents, timezone, lines, pos, current_record, records,
                   df_grouped, heatmap_data, metrics>>

\* df['date'] = df['date'].dt.tz_convert(timezone)
TzConvert ==
    /\ pc = "tz_convert"
    /\ IF KnownZone(timezone)
       THEN /\ df' = [r \in 1..Len(df) |->
                        [df[r] EXCEPT !.date.tz = timezone]]
            /\ pc' = "astype"
            /\ UNCHANGED <<st_error, result>>
       ELSE /\ st_error' = "UnknownTimeZoneError"
            /\ result' = "None"
            /\ pc' = "done"
            /\ UNCHANGED df
    /\ UNCHANGED <<file_contents, timezone, lines, pos, current_record, records,
                   df_grouped, heatmap_data, metrics>>

Digits == <<"0", "1", "2", "3", "4", "5", "6", "7", "8", "9">>

IsDigit(c) == \E d \in 1..Len(Digits) : Digits[d] = c

DigitValue(c) == (CHOOSE d \in 1..Len(Digits) : Digits[d] = c) - 1

RECURSIVE DigitsValue(_)
DigitsValue(s) ==
    IF Len(s) = 0 THEN 0
    ELSE 10 * DigitsValue(SubSeq(s, 1, Len(s) - 1)) + DigitValue(s[Len(s)])

Signs == {"-", "+"}

\* the digits of an integer literal, its sign removed
Unsigned(s) == IF Len(s) > 0 /\ s[1] \in Signs THEN Tail(s) ELSE s

\* int(s) succeeds: optional surrounding whitespace, optional sign, digits
IntParses(s) ==
    LET u == Unsigned(Strip(s))
    IN  Len(u) > 0 /\ \A k \in 1..Len(u) : IsDigit(u[k])

\* int(s)
IntValue(s) ==
    LET t == Strip(s)
    IN  IF t[1] = "-" THEN 0 - DigitsValue(Unsigned(t))
        ELSE DigitsValue(Unsigned(t))

\* df['Likes'] = df['Likes'].astype(int)
AsTypeInt ==
    /\ pc = "astype"
    /\ IF \A r \in 1..Len(df) : ~df[r].Likes.nan /\ IntParses(df[r].Likes.s)
       THEN /\ df' = [r \in 1..Len(df) |->
                        [df[r] EXCEPT !.Likes = IntValue(df[r].Likes.s)]]
            /\ pc' = "time_columns"
            /\ UNCHANGED <<st_error, result>>
       ELSE /\ st_error' = "ValueError"
            /\ result' = "None"
            /\ pc' = "done"
            /\ UNCHANGED df
    /\ UNCHANGED <<file_contents, timezone, lines, pos, current_record, records,
                   df_grouped, heatmap_data, metrics>>

DayNames == <<"Monday", "Tuesday", "Wednesday", "Thursday", "Friday",
              "Saturday", "Sunday">>

\* the wall clock of a zoned instant, in hours since the epoch Monday
LocalHours(date) == date.t + ZoneOffset[date.tz]

\* .dt.day_name()
DayName(date) == DayNames[((LocalHours(date) \div 24) % 7) + 1]

\* .dt.hour
Hour(date) == LocalHours(date) % 24

\* .dt.strftime('%p')
TimePeriod(date) == IF Hour(date) < 12 THEN "AM" ELSE "PM"

\* .dt.strftime('%I'): the hour of the 12-hour clock, two digits
Hour12(date) ==
    LET h == IF Hour(date) % 12 = 0 THEN 12 ELSE Hour(date) % 12
    IN  <<Digits[(h \div 10) + 1], Digits[(h % 10) + 1]>>

\* the five derived columns of one row; NaN where the date is NaT
TimeColumns(date) ==
    IF date.nat
    THEN [day_of_week |-> [nan |-> TRUE, v |-> ""],
          time        |-> [nan |-> TRUE, v |-> <<>>],
          time_period |-> [nan |-> TRUE, v |-> ""],
          hour        |-> [nan |-> TRUE, v |-> 0],
          hour_12     |-> [nan |-> TRUE, v |-> <<>>]]
    ELSE [day_of_week |-> [nan |-> FALSE, v |-> DayName(date)],
          time        |-> [nan |-> FALSE, v |-> <<Hour(date), 0, 0>>],
          time_period |-> [nan |-> FALSE, v |-> TimePeriod(date)],
          hour        |-> [nan |-> FALSE, v |-> Hour(date)],
          hour_12     |-> [nan |-> FALSE, v |-> Hour12(date)]]

\* a row of the returned table
Row(date, likes) ==
    LET c == TimeColumns(date)
    IN  [date |-> date, Likes |-> likes, day_of_week |-> c.day_of_week,
         time |-> c.time, time_period |-> c.time_period, hour |-> c.hour,
         hour_12 |-> c.hour_12]

\* lines 37-43: the time-based columns, then return df
AddTimeColumns ==
    /\ pc = "time_columns"
    /\ df' = [r \in 1..Len(df) |-> Row(df[r].date, df[r].Likes)]
    /\ result' = "df"
    /\ pc' = "heatmap"
    /\ UNCHANGED <<file_contents, timezone, lines, pos, current_record, records,
                   st_error, df_grouped, heatmap_data, metrics>>

-----------------------------------------------------------------------------
(* create_heatmap (lines 50-52) and the metrics of main (lines 105-106) *)

\* num/den rounded to the nearest integer, a tie going to the even one:
\* what numpy's round does to a double.  The doubles of the model are
\* exact: a tie of a mean at two decimals needs a group of 8 rows, whose
\* mean k/8 and its hundredfold are representable; a group of fewer than
\* 40 rows has no other tie.
RoundHalfEven(num, den) ==
    LET q == num \div den
        r == num % den
    IN  IF 2 * r < den THEN q
        ELSE IF 2 * r > den THEN q + 1
        ELSE IF q % 2 = 0 THEN q ELSE q + 1

\* a mean cut to 2 decimals instead of rounded
Round2Truncating(sum, count) == (100 * sum) \div count

\* (sum / count).round(2), in hundredths
Round2(sum, count) == RoundHalfEven(100 * sum, count)

\* the rows groupby keeps: it drops a row whose key is NaN
Grouped(d) == { r \in 1..Len(d) : ~d[r].day_of_week.nan /\ ~d[r].hour.nan }

GroupKey(row) == <<row.day_of_week.v, row.hour.v>>

GroupRows(d, key) == { r \in Grouped(d) : GroupKey(d[r]) = key }

RECURSIVE SumLikes(_, _)
SumLikes(d, rows) ==
    IF rows = {} THEN 0
    ELSE LET r == CHOOSE x \in rows : TRUE
         IN  d[r].Likes + SumLikes(d, rows \ {r})

\* df.groupby(['day_of_week', 'hour']).agg({'Likes': 'mean'}), .round(2)
GroupMeans(d) ==
    [key \in { GroupKey(d[r]) : r \in Grouped(d) } |->
        Round2(SumLikes(d, GroupRows(d, key)), Cardinality(GroupRows(d, key)))]

\* df_grouped.pivot(index="day_of_week", columns="hour", values="Likes")
Pivot(g) ==
    [day \in { key[1] : key \in DOMAIN g } |->
        [hour \in { key[2] : key \in DOMAIN g } |->
            IF <<day, hour>> \in DOMAIN g
            THEN [nan |-> FALSE, v |-> g[<<day, hour>>]]
            ELSE [nan |-> TRUE, v |-> 0]]]

\* fig = create_heatmap(df), under: if df is not None
CreateHeatmap ==
    /\ pc = "heatmap"
    /\ df_grouped' = GroupMeans(df)
    /\ heatmap_data' = Pivot(GroupMeans(df))
    /\ pc' = "metrics"
    /\ UNCHANGED <<file_contents, timezone, lines, pos, current_record, records,
                   df, st_error, result, metrics>>

\* st.metric("Total Likes", ...); st.metric("Average Likes", round(mean, 2))
ShowMetrics ==
    /\ pc = "metrics"
    /\ metrics' = <<SumLikes(df, 1..Len(df)),
                    Round2(SumLikes(df, 1..Len(df)), Len(df))>>
    /\ pc' = "done"
    /\ UNCHANGED <<file_contents, timezone, lines, pos, current_record, records,
                   df, st_error, result, df_grouped, heatmap_data>>

Next ==
    \/ ReadLine
    \/ BuildFrame
    \/ ToDatetime
    \/ TzConvert
    \/ AsTypeInt
    \/ AddTimeColumns
    \/ CreateHeatmap
    \/ ShowMetrics

Spec == Init /\ [][Next]_vars

-----------------------------------------------------------------------------
(* create_heatmap on a table of its own *)

HeatRows ==
    { Row([nat |-> FALSE, t |-> DateTable[D1], tz |-> "UTC"], 0),
      Row([nat |-> FALSE, t |-> DateTable[D1], tz |-> "UTC"], 1),
      Row([nat |-> FALSE, t |-> DateTable[D2], tz |-> "UTC"], 10) }

InitHeat ==
    /\ file_contents = <<>>
    /\ timezone = "UTC"
    /\ lines = Split(file_contents)
    /\ pos = 1
    /\ current_record = EmptyRecord
    /\ records = <<>>
    /\ df \in UNION { [1..n -> HeatRows] : n \in 1..MaxRows }
    /\ st_error = ""
    /\ result = "df"
    /\ df_grouped = EmptyRecord
    /\ heatmap_data = EmptyRecord
    /\ metrics = <<>>
    /\ pc = "heatmap"

NextHeat == CreateHeatmap \/ ShowMetrics

SpecHeat == InitHeat /\ [][NextHeat]_vars

-----------------------------------------------------------------------------
(* What the text says, stated without the operators of the loop *)

\* a line without its leading whitespace
RECURSIVE DropLeading(_)
DropLeading(s) ==
    IF s = <<>> \/ Head(s) \notin {" ", "\r"} THEN s ELSE DropLeading(Tail(s))

\* a line without its trailing whitespace
RECURSIVE DropTrailing(_)
DropTrailing(s) ==
    IF s = <<>> \/ s[Len(s)] \notin {" ", "\r"} THEN s
    ELSE DropTrailing(SubSeq(s, 1, Len(s) - 1))

\* a line without its leading and trailing whitespace
Trimmed(s) == DropTrailing(DropLeading(s))

TLine(k) == Trimmed(lines[k])

\* the trimmed line starts with "Adds yours text:"
MarksEnd(line) ==
    Len(line) >= 2 /\ line[1] = "Adds yours text" /\ line[2] = ":"

\* the trimmed line holds a colon followed by a space
HoldsPair(line) ==
    \E k \in 1..(Len(line) - 1) : line[k] = ":" /\ line[k + 1] = " "

\* <<key, value>>: line = key ": " value, and no ": " starts inside key ":"
PairOf(line) ==
    CHOOSE kv \in { <<SubSeq(line, 1, k - 1), SubSeq(line, k + 2, Len(line))>> :
                      k \in 1..(Len(line) - 1) } :
        /\ kv[1] \o <<":", " ">> \o kv[2] = line
        /\ \A m \in 1..Len(kv[1]) : ~(line[m] = ":" /\ line[m + 1] = " ")

\* the terminator lines among the first n lines
Terminators(n) == { k \in 1..n : MarksEnd(TLine(k)) }

NumTerminators == Cardinality(Terminators(Len(lines)))

NthTerminator(i) ==
    CHOOSE k \in Terminators(Len(lines)) : Cardinality(Terminators(k)) = i

LastTerminator ==
    IF NumTerminators = 0 THEN 0 ELSE NthTerminator(NumTerminators)

\* the first line of the i-th block
BlockStart(i) == IF i = 1 THEN 1 ELSE NthTerminator(i - 1) + 1

\* the lines of a..b that hold a pair
PairLines(a, b) == { k \in a..b : HoldsPair(TLine(k)) }

\* the union of the pairs of the lines a..b, the last value of a key winning
UnionOfPairs(a, b) ==
    [key \in { PairOf(TLine(k))[1] : k \in PairLines(a, b) } |->
        LET last == CHOOSE k \in PairLines(a, b) :
                        /\ PairOf(TLine(k))[1] = key
                        /\ \A m \in PairLines(a, b) :
                              PairOf(TLine(m))[1] = key => m <= k
        IN  PairOf(TLine(last))[2]]

LoopDone == pc # "loop" \/ pos > Len(lines)

-----------------------------------------------------------------------------
(* C1 *)

\* C1: at every point of the loop the number of records equals the number
\* of terminator lines read so far (so N at its end), and the i-th record
\* is the one the i-th terminator closed: its keys are the keys of the
\* lines of the i-th block, each with a value that block gives it.
C1_OneRecordPerTerminator ==
    /\ pos - 1 <= Len(lines)
    /\ Len(records) = Cardinality(Terminators(pos - 1))
    /\ \A i \in 1..Len(records) :
          LET a == BlockStart(i)
              b == NthTerminator(i)
          IN  /\ DOMAIN records[i] =
                    { PairOf(TLine(k))[1] : k \in PairLines(a, b) }
              /\ \A key \in DOMAIN records[i] :
                    \E k \in PairLines(a, b) :
                        PairOf(TLine(k)) = <<key, records[i][key]>>

\* two records with different keys, the loop over
C1_Witness ==
    /\ LoopDone
    /\ Len(records) = 2
    /\ NumTerminators = 2
    /\ DOMAIN records[1] # DOMAIN records[2]

-----------------------------------------------------------------------------
(* C2 *)

\* C2 as stated: every record is the union of the pairs of the lines
\* strictly between its start and its terminator line, and holds no pair of
\* the terminator line.
C2_ExcludesTerminatorPair ==
    \A i \in 1..Len(records) :
        records[i] = UnionOfPairs(BlockStart(i), NthTerminator(i) - 1)

\* C2, amended: every record is the union of the pairs of the lines from
\* its start up to and including its terminator line, the last value of a
\* duplicated key winning; it holds no pair of another block.
C2_IncludesTerminatorPair ==
    \A i \in 1..Len(records) :
        records[i] = UnionOfPairs(BlockStart(i), NthTerminator(i))

\* a record whose block gave one key two values and whose terminator line
\* holds a pair
C2_Witness ==
    /\ LoopDone
    /\ \E i \in 1..Len(records) :
          /\ HoldsPair(TLine(NthTerminator(i)))
          /\ \E k, m \in PairLines(BlockStart(i), NthTerminator(i)) :
                /\ k < m
                /\ PairOf(TLine(k))[1] = PairOf(TLine(m))[1]
                /\ PairOf(TLine(k))[2] # PairOf(TLine(m))[2]

-----------------------------------------------------------------------------
(* C7 *)

\* C7: once the last terminator line is read, no step changes the list of
\* records: the lines after it add no record and reach no record.
C7_TrailingBlockDiscarded ==
    [][pos > LastTerminator => records' = records]_vars

\* the loop is over, records were returned and a trailing block is left
C7_Witness ==
    /\ pc # "loop"
    /\ Len(records) > 0
    /\ current_record # EmptyRecord
    /\ PairLines(LastTerminator + 1, Len(lines)) # {}

-----------------------------------------------------------------------------
(* C8 *)

\* C8: reading a terminator line appends one record and starts an empty
\* one; the appended record is the in-progress record, with the pair of
\* the terminator line stored into it first when the line holds one.
C8_PairThenClose ==
    [][(pc = "loop" /\ pos <= Len(lines) /\ MarksEnd(TLine(pos))) =>
          /\ Len(records') = Len(records) + 1
          /\ SubSeq(records', 1, Len(records)) = records
          /\ current_record' = EmptyRecord
          /\ LET closed == records'[Len(records')]
                 line   == TLine(pos)
             IN  IF HoldsPair(line)
                 THEN /\ DOMAIN closed =
                            (DOMAIN current_record) \cup {PairOf(line)[1]}
                      /\ closed[PairOf(line)[1]] = PairOf(line)[2]
                      /\ \A k \in DOMAIN current_record :
                            k # PairOf(line)[1] => closed[k] = current_record[k]
                 ELSE closed = current_record]_vars

\* a terminator line with a pair was read, then one without
C8_Witness ==
    /\ Len(records) = 2
    /\ HoldsPair(TLine(NthTerminator(1)))
    /\ <<"Adds yours text">> \in DOMAIN records[1]
    /\ ~HoldsPair(TLine(NthTerminator(2)))
    /\ records[2] = EmptyRecord

-----------------------------------------------------------------------------
(* C9 *)

\* C9: reading a line that holds ": " and is no terminator stores the pair
\* split at the first ": " into the in-progress record, over any earlier
\* value of the key, and leaves the rest alone; reading a blank line, or a
\* line with no ": " that is no terminator, changes neither the in-progress
\* record nor the list of records.
C9_FirstSeparatorSplit ==
    [][(pc = "loop" /\ pos <= Len(lines) /\ ~MarksEnd(TLine(pos))) =>
          /\ records' = records
          /\ LET line == TLine(pos)
             IN  IF HoldsPair(line)
                 THEN /\ DOMAIN current_record' =
                            (DOMAIN current_record) \cup {PairOf(line)[1]}
                      /\ current_record'[PairOf(line)[1]] = PairOf(line)[2]
                      /\ \A k \in DOMAIN current_record :
                            k # PairOf(line)[1] =>
                                current_record'[k] = current_record[k]
                 ELSE current_record' = current_record]_vars

\* a line with two ": " was read and overwrote the value of its key
C9_Witness ==
    /\ pos = 3
    /\ TLine(1) = <<"Note", ":", " ", "c">>
    /\ TLine(2) = <<"Note", ":", " ", "a", ":", " ", "b">>
    /\ current_record = (<<"Note">> :> <<"a", ":", " ", "b">>)

-----------------------------------------------------------------------------
(* C3, C4 *)

\* C3: when a record lacks the key Date or the key Like(s), the function
\* returns no table.
C3_MissingFieldRejected ==
    (/\ LoopDone
     /\ \E i \in 1..Len(records) :
           <<"Date">> \notin DOMAIN records[i]
           \/ <<"Like(s)">> \notin DOMAIN records[i])
    => result # "df"

\* C4: every row of a returned table has Likes >= 0.
C4_LikesNonNegative ==
    result = "df" => \A r \in 1..Len(df) : df[r].Likes >= 0

-----------------------------------------------------------------------------
(* C5 *)

\* the zones of the model that are zones of the timezone database
Recognized == timezone \in {"UTC", "US/Pacific"}

\* every Date value of the records is a date
AllDatesParse ==
    \A i \in 1..Len(records) :
        <<"Date">> \in DOMAIN records[i] =>
            records[i][<<"Date">>] \in
                {<<"2024-01-15T10:00:00Z">>, <<"2024-01-16T03:00:00Z">>}

\* both columns can be projected
BothColumns ==
    /\ \E i \in 1..Len(records) : <<"Date">> \in DOMAIN records[i]
    /\ \E i \in 1..Len(records) : <<"Like(s)">> \in DOMAIN records[i]

\* C5 as stated: with an unrecognized zone no Date value is ever parsed,
\* and a batch whose columns exist fails with the unknown-timezone error,
\* an unparseable date in it or not.
C5_ZoneCheckedFirst ==
    ~Recognized =>
        /\ pc # "tz_convert"
        /\ (pc = "done" /\ BothColumns) => st_error = "UnknownTimeZoneError"

\* C5, amended: with an unrecognized zone the aggregation fails and returns
\* no table, and no Like(s) value is cast; the zone is checked after the
\* projection of the columns and after the parse of every Date value, so
\* the failure is the unknown-timezone one exactly when both columns exist
\* and every date parses, and the date one when a date does not parse.
C5_ZoneCheckedAfterDates ==
    ~Recognized =>
        /\ pc \in {"loop", "to_datetime", "tz_convert", "done"}
        /\ result # "df"
        /\ pc = "done" =>
              /\ result = "None"
              /\ st_error = (IF ~BothColumns THEN "KeyError"
                             ELSE IF ~AllDatesParse THEN "DateParseError"
                             ELSE "UnknownTimeZoneError")

\* the unknown zone was reported, after the dates were parsed
C5_Witness ==
    /\ ~Recognized
    /\ pc = "done"
    /\ st_error = "UnknownTimeZoneError"
    /\ Len(df) > 0
    /\ \A r \in 1..Len(df) : ~df[r].date.nat /\ df[r].date.t >= 0

-----------------------------------------------------------------------------
(* C6 *)

\* the rows of the table that fall on a day and an hour
RowsAt(day, hour) ==
    { r \in 1..Len(df) : df[r].day_of_week = [nan |-> FALSE, v |-> day]
                         /\ df[r].hour = [nan |-> FALSE, v |-> hour] }

HeatmapMade == pc \in {"metrics", "done"} /\ result = "df"

\* v hundredths is sum/count rounded to 2 decimals, a tie going up
IsHalfUp(v, sum, count) ==
    /\ 2 * (100 * sum - v * count) < count
    /\ 2 * (v * count - 100 * sum) <= count

\* v hundredths is sum/count rounded to 2 decimals, a tie going to the
\* even hundredth
IsHalfEven(v, sum, count) ==
    /\ 2 * (100 * sum - v * count) <= count
    /\ 2 * (v * count - 100 * sum) <= count
    /\ 2 * (100 * sum - v * count) \in {count, 0 - count} => v % 2 = 0

\* every row with a day and an hour falls in a cell, whose value Rounded
\* accepts as the mean of the rows that fall there; a day and an hour where
\* no row falls have no cell: none in df_grouped, NaN in heatmap_data
CellsAre(Rounded(_, _, _)) ==
    /\ \A r \in 1..Len(df) :
          (~df[r].day_of_week.nan /\ ~df[r].hour.nan) =>
              LET day  == df[r].day_of_week.v
                  hour == df[r].hour.v
                  rows == RowsAt(day, hour)
              IN  /\ <<day, hour>> \in DOMAIN df_grouped
                  /\ Rounded(df_grouped[<<day, hour>>],
                             SumLikes(df, rows), Cardinality(rows))
                  /\ heatmap_data[day][hour] =
                        [nan |-> FALSE, v |-> df_grouped[<<day, hour>>]]
    /\ \A key \in DOMAIN df_grouped : RowsAt(key[1], key[2]) # {}
    /\ \A day \in DOMAIN heatmap_data :
          \A hour \in DOMAIN heatmap_data[day] :
              heatmap_data[day][hour].nan = (RowsAt(day, hour) = {})

\* C6 as stated: a cell holds the mean of its rows rounded half-up to 2
\* decimals (0.125 gives 0.13), and a pair with no row has no cell.
C6_MeanRoundedHalfUp == HeatmapMade => CellsAre(IsHalfUp)

\* C6, amended: a cell holds the mean of its rows rounded to 2 decimals
\* with a tie going to the even hundredth (0.125 gives 0.12, 0.375 gives
\* 0.38), and a pair with no row has no cell.
C6_MeanRoundedHalfEven == HeatmapMade => CellsAre(IsHalfEven)

\* a cell of 8 rows whose mean is 0.125, and a row of another day and hour
C6_Witness ==
    /\ HeatmapMade
    /\ Cardinality(RowsAt("Monday", 10)) = 8
    /\ SumLikes(df, RowsAt("Monday", 10)) = 1
    /\ df_grouped[<<"Monday", 10>>] = 12
    /\ Len(df) = 9
    /\ <<"Tuesday", 3>> \in DOMAIN df_grouped
    /\ heatmap_data["Tuesday"][10].nan

-----------------------------------------------------------------------------
(* C10 *)

\* C10: the function ends in one of two ways: an error is reported and
\* None returned, with no table made from it downstream; or no error is
\* reported and the table has one row per record, in the order of the
\* records, the row's Likes and date being those of its record.  Without
\* a terminator line there is no record and the outcome is the error one.
C10_TableOrNone ==
    /\ result \in {"pending", "None", "df"}
    /\ (result = "None") = (st_error # "")
    /\ result = "pending" => pc \notin {"heatmap", "metrics", "done"}
    /\ result = "None" =>
          pc = "done" /\ df_grouped = EmptyRecord /\ metrics = <<>>
    /\ result = "df" =>
          /\ Len(df) = Len(records)
          /\ Len(df) = NumTerminators
          /\ \A r \in 1..Len(df) :
                /\ <<"Like(s)">> \in DOMAIN records[r]
                /\ df[r].Likes = IntValue(records[r][<<"Like(s)">>])
                /\ df[r].date.nat = (<<"Date">> \notin DOMAIN records[r])
                /\ ~df[r].date.nat =>
                      <<df[r].date.t, records[r][<<"Date">>]>> \in
                          { <<10, <<"2024-01-15T10:00:00Z">> >>,
                            <<27, <<"2024-01-16T03:00:00Z">> >> }
    /\ (pc # "loop" /\ NumTerminators = 0) => result = "None"

\* both outcomes: a table of two rows in the order of two unlike records
C10_Witness ==
    /\ result = "df"
    /\ Len(df) = 2
    /\ df[1].date.t # df[2].date.t
    /\ records[1] # records[2]

=============================================================================
